---- MODULE Spec2Model ----
(***************************************************************************)
(* Model of the inventory store (class InventoryDatabase of                *)
(* inventory_management_system.py) and of the consumers that call it.      *)
(*                                                                         *)
(* Conventions.                                                            *)
(*  - A Python string is a sequence of one-character strings.              *)
(*  - A Python value that may be None is a set with at most one element:   *)
(*    {} is None, {v} is the value v.                                      *)
(*  - price is REAL in the schema; the model draws prices from integers.   *)
(*  - CURRENT_TIMESTAMP has a resolution of one second: `now' is the       *)
(*    clock in whole seconds.                                              *)
(***************************************************************************)
EXTENDS Integers, Sequences, FiniteSets, TLC

VARIABLES
    items,      \* the rows of table items
    seq,        \* sqlite_sequence: the largest rowid AUTOINCREMENT has used
    now,        \* CURRENT_TIMESTAMP
    issued,     \* history: every id an INSERT has assigned so far
    lastOp      \* the call that returned last, and how it ended

vars == <<items, seq, now, issued, lastOp>>

\* ---------------------------------------------------------------- bounds
\* Largest rowid the model lets AUTOINCREMENT hand out.
MaxId == 2
\* Last second the clock reaches.
MaxTime == 1

\* ---------------------------------------------------------------- strings
EmptyStr == <<>>
Blank == <<" ">>

\* Code point of a character (ordering of the BINARY collation).
Ord(c) ==
    CASE c = " " -> 32
      [] c = "%" -> 37
      [] c = "A" -> 65
      [] c = "_" -> 95
      [] c = "a" -> 97
      [] c = "b" -> 98
      [] c = "x" -> 120
      [] c = "y" -> 121

\* ASCII lower-casing, as LIKE folds case.
Lower(c) == IF c = "A" THEN "a" ELSE c

IsSpace(c) == c = " "

RECURSIVE lstrip(_)
lstrip(s) ==
    IF Len(s) > 0 /\ IsSpace(Head(s)) THEN lstrip(Tail(s)) ELSE s

RECURSIVE rstrip(_)
rstrip(s) ==
    IF Len(s) > 0 /\ IsSpace(s[Len(s)]) THEN rstrip(SubSeq(s, 1, Len(s) - 1)) ELSE s

\* str.strip()
strip(s) == rstrip(lstrip(s))

\* s < t, comparing code points from the left (memcmp order).
RECURSIVE StrLess(_, _)
StrLess(s, t) ==
    IF Len(t) = 0 THEN FALSE
    ELSE IF Len(s) = 0 THEN TRUE
    ELSE IF Ord(Head(s)) # Ord(Head(t)) THEN Ord(Head(s)) < Ord(Head(t))
    ELSE StrLess(Tail(s), Tail(t))

\* text LIKE pattern: % matches any run of characters, _ any one character,
\* letters match without regard to case.
RECURSIVE Like(_, _)
Like(text, pattern) ==
    IF Len(pattern) = 0 THEN Len(text) = 0
    ELSE IF Head(pattern) = "%"
         THEN \/ Like(text, Tail(pattern))
              \/ Len(text) > 0 /\ Like(Tail(text), pattern)
    ELSE IF Len(text) = 0 THEN FALSE
    ELSE IF Head(pattern) = "_" THEN Like(Tail(text), Tail(pattern))
    ELSE /\ Lower(Head(text)) = Lower(Head(pattern))
         /\ Like(Tail(text), Tail(pattern))

\* ---------------------------------------------------------------- inputs
\* Argument tuples the callers pass: two valid ones (one on the zero
\* boundary), one whose texts are whitespace only, and one per validation
\* branch of create_item / update_item.
Arg(n, q, p, c, d) ==
    [name |-> n, quantity |-> q, price |-> p, category |-> c, description |-> d]

Inputs ==
    { Arg(<<"a">>, 2, 3, <<"x">>, EmptyStr),
      Arg(<<"b">>, 0, 0, <<"y">>, <<"a">>),
      Arg(Blank, 2, 3, Blank, EmptyStr),
      Arg(EmptyStr, 2, 3, <<"x">>, EmptyStr),
      Arg(<<"a">>, 2, 3, EmptyStr, EmptyStr),
      Arg(<<"a">>, -1, 3, <<"x">>, EmptyStr),
      Arg(<<"a">>, 2, -1, <<"x">>, EmptyStr) }

Ids == 1..(MaxId + 1)

\* ---------------------------------------------------------------- schema
\* One row of table items.
Row(id, a, created, updated) ==
    [id |-> id, name |-> a.name, category |-> a.category, quantity |-> a.quantity,
     price |-> a.price, description |-> a.description,
     created_at |-> created, updated_at |-> updated]

SetMax(S) == CHOOSE m \in S : \A x \in S : x <= m

\* id INTEGER PRIMARY KEY AUTOINCREMENT: one more than the largest rowid
\* ever used (kept in sqlite_sequence) or present in the table.
NewRowidReuse(rows, s) == IF rows = {} THEN 1 ELSE SetMax({r.id : r \in rows}) + 1

NewRowid(rows, s) == SetMax({s} \cup {r.id : r \in rows}) + 1

Init ==
    /\ items = {}
    /\ seq = 0
    /\ now = 0
    /\ issued = {}
    /\ lastOp = [op |-> "init_database", id |-> {}, exc |-> "", ret |-> {}, status |-> 0]

\* ---------------------------------------------------------------- store
\* What a method call leaves behind: the exception it raised ("" if none),
\* the value it returned, the table and sqlite_sequence afterwards.
Outcome(exc, ret, rows, s) == [exc |-> exc, ret |-> ret, items |-> rows, seq |-> s]

\* The two checks at the top of create_item.
create_item_checks_and(a) ==
    IF Len(a.name) = 0 \/ Len(a.category) = 0 THEN "ValueError"
    ELSE IF a.quantity < 0 /\ a.price < 0 THEN "ValueError"
    ELSE ""

create_item_checks(a) ==
    IF Len(a.name) = 0 \/ Len(a.category) = 0 THEN "ValueError"
    ELSE IF a.quantity < 0 \/ a.price < 0 THEN "ValueError"
    ELSE ""

\* The two checks at the top of update_item.
update_item_checks_and(a) ==
    IF Len(a.name) = 0 \/ Len(a.category) = 0 THEN "ValueError"
    ELSE IF a.quantity < 0 /\ a.price < 0 THEN "ValueError"
    ELSE ""

update_item_checks(a) ==
    IF Len(a.name) = 0 \/ Len(a.category) = 0 THEN "ValueError"
    ELSE IF a.quantity < 0 \/ a.price < 0 THEN "ValueError"
    ELSE ""

\* create_item at second t: INSERT, both timestamps by DEFAULT
\* CURRENT_TIMESTAMP; the method has no return statement.
create_item(rows, s, t, a) ==
    IF create_item_checks(a) # "" THEN Outcome(create_item_checks(a), {}, rows, s)
    ELSE LET id == NewRowid(rows, s)
         IN  Outcome("", {}, rows \cup {Row(id, a, t, t)}, id)

\* SET name=?, category=?, quantity=?, price=?, description=?,
\*     updated_at=CURRENT_TIMESTAMP
UpdateSetKeepStamp(r, a, t) == Row(r.id, a, r.created_at, r.updated_at)

UpdateSet(r, a, t) == Row(r.id, a, r.created_at, t)

\* update_item at second t: UPDATE ... WHERE id=?; no return statement and
\* no look at the number of rows changed.
update_item(rows, s, t, item_id, a) ==
    IF update_item_checks(a) # "" THEN Outcome(update_item_checks(a), {}, rows, s)
    ELSE Outcome("", {},
                 {IF r.id = item_id THEN UpdateSet(r, a, t) ELSE r : r \in rows}, s)

\* DELETE FROM items WHERE id = ?
DeleteWhereStrict(rows, item_id) == {r \in rows : r.id > item_id}

DeleteWhere(rows, item_id) == {r \in rows : r.id # item_id}

delete_item(rows, s, item_id) == Outcome("", {}, DeleteWhere(rows, item_id), s)

\* get_item_by_id: the row as a one-element set, {} for None. item_id may
\* itself be None ({}): id = NULL selects no row.
get_item_by_id(rows, item_id) == {r \in rows : r.id \in item_id}

\* ORDER BY name; rows of equal name in rowid order.
RECURSIVE OrderByName(_)
OrderByName(rows) ==
    IF rows = {} THEN <<>>
    ELSE LET first == CHOOSE r \in rows : \A q \in rows :
                          \/ r = q
                          \/ StrLess(r.name, q.name)
                          \/ r.name = q.name /\ r.id < q.id
         IN  <<first>> \o OrderByName(rows \ {first})

\* Python truth of an optional string: neither None nor "".
Truthy(opt) == \E v \in opt : Len(v) > 0

\* The list without the category filter.
get_all_items_unfiltered(rows, category, search_term) ==
    LET bySearch == IF Truthy(search_term)
                    THEN {r \in rows : \E t \in search_term :
                              \/ Like(r.name, <<"%">> \o t \o <<"%">>)
                              \/ Like(r.description, <<"%">> \o t \o <<"%">>)}
                    ELSE rows
    IN  OrderByName(bySearch)

\* get_all_items: WHERE 1=1 [AND category = ?]
\*                [AND (name LIKE ? OR description LIKE ?)] ORDER BY name
get_all_items(rows, category, search_term) ==
    LET byCat == IF Truthy(category)
                 THEN {r \in rows : r.category \in category}
                 ELSE rows
        bySearch == IF Truthy(search_term)
                    THEN {r \in byCat : \E t \in search_term :
                              \/ Like(r.name, <<"%">> \o t \o <<"%">>)
                              \/ Like(r.description, <<"%">> \o t \o <<"%">>)}
                    ELSE byCat
    IN  OrderByName(bySearch)

RECURSIVE OrderStrings(_)
OrderStrings(S) ==
    IF S = {} THEN <<>>
    ELSE LET first == CHOOSE v \in S : \A w \in S : v = w \/ StrLess(v, w)
         IN  <<first>> \o OrderStrings(S \ {first})

\* get_categories: SELECT DISTINCT category FROM items ORDER BY category
get_categories(rows) == OrderStrings({r.category : r \in rows})

\* SUM over the rows; the caller handles the empty table.
RECURSIVE SumQuantity(_)
SumQuantity(rows) ==
    IF rows = {} THEN 0
    ELSE LET r == CHOOSE q \in rows : TRUE
         IN  r.quantity + SumQuantity(rows \ {r})

RECURSIVE SumValue(_)
SumValue(rows) ==
    IF rows = {} THEN 0
    ELSE LET r == CHOOSE q \in rows : TRUE
         IN  r.quantity * r.price + SumValue(rows \ {r})

\* get_summary_stats: COUNT(*), SUM(quantity), SUM(quantity * price),
\* COUNT(DISTINCT category). SUM over no rows is NULL, which the method
\* hands on as None.
get_summary_stats(rows) ==
    [total_items |-> Cardinality(rows),
     total_quantity |-> IF rows = {} THEN {} ELSE {SumQuantity(rows)},
     total_value |-> IF rows = {} THEN {} ELSE {SumValue(rows)},
     total_categories |-> Cardinality({r.category : r \in rows})]

\* ---------------------------------------------------------------- actions
Call(op, id, o) == [op |-> op, id |-> id, exc |-> o.exc, ret |-> o.ret, status |-> 0]

\* A consumer calls db.create_item.
CreateItem(a) ==
    LET o == create_item(items, seq, now, a)
    IN  /\ o.seq <= MaxId
        /\ items' = o.items
        /\ seq' = o.seq
        /\ issued' = issued \cup {r.id : r \in o.items \ items}
        /\ lastOp' = Call("create_item", {}, o)
        /\ UNCHANGED now

\* A consumer calls db.update_item.
UpdateItem(item_id, a) ==
    LET o == update_item(items, seq, now, item_id, a)
    IN  /\ items' = o.items
        /\ seq' = o.seq
        /\ lastOp' = Call("update_item", {item_id}, o)
        /\ UNCHANGED <<now, issued>>

\* A consumer calls db.delete_item.
DeleteItem(item_id) ==
    LET o == delete_item(items, seq, item_id)
    IN  /\ items' = o.items
        /\ seq' = o.seq
        /\ lastOp' = Call("delete_item", {item_id}, o)
        /\ UNCHANGED <<now, issued>>

\* The web consumer's POST /api/items: strips the texts, refuses blank
\* ones with 400, calls db.create_item, and looks the new item up by the
\* value create_item returned.
add_item(a) ==
    LET name == strip(a.name)
        category == strip(a.category)
        description == strip(a.description)
        o == create_item(items, seq, now, Arg(name, a.quantity, a.price, category, description))
        new_id == o.ret
        created_item == get_item_by_id(o.items, new_id)
        Response(status, id) ==
            [op |-> "add_item", id |-> {}, exc |-> "", ret |-> id, status |-> status]
    IN  IF Len(name) = 0 \/ Len(category) = 0 \/ o.exc = "ValueError"
        THEN /\ lastOp' = Response(400, {})
             /\ UNCHANGED <<items, seq, now, issued>>
        ELSE /\ o.seq <= MaxId
             /\ items' = o.items
             /\ seq' = o.seq
             /\ issued' = issued \cup {r.id : r \in o.items \ items}
             /\ lastOp' = Response(201, IF created_item # {}
                                        THEN {r.id : r \in created_item}
                                        ELSE new_id)
             /\ UNCHANGED now

\* The desktop consumer's statistics dialog: formats total_value with
\* :.2f, which raises TypeError on None; the handler catches it and shows
\* an error box instead of the figures.
show_stats ==
    LET stats == get_summary_stats(items)
    IN  /\ lastOp' = [op |-> "show_stats", id |-> {},
                       exc |-> IF stats.total_value = {} THEN "TypeError" ELSE "",
                       ret |-> {}, status |-> 0]
        /\ UNCHANGED <<items, seq, now, issued>>

\* ---------------------------------------------------------------- csv
\* A CSV file is the sequence of its data rows, each a function from the
\* column names of the header to the field texts; the csv module's quoting
\* gives every text back as it was written.
Digit(d) ==
    CASE d = 0 -> "0" [] d = 1 -> "1" [] d = 2 -> "2" [] d = 3 -> "3" [] d = 4 -> "4"
      [] d = 5 -> "5" [] d = 6 -> "6" [] d = 7 -> "7" [] d = 8 -> "8" [] d = 9 -> "9"

IsDigit(c) == c \in {"0", "1", "2", "3", "4", "5", "6", "7", "8", "9"}

DigitValue(c) == CHOOSE d \in 0..9 : Digit(d) = c

RECURSIVE NatToStr(_)
NatToStr(n) == IF n < 10 THEN <<Digit(n)>> ELSE NatToStr(n \div 10) \o <<Digit(n % 10)>>

\* str() of an int, as csv.writer writes it.
IntToStr(n) == IF n < 0 THEN <<"-">> \o NatToStr(-n) ELSE NatToStr(n)

\* str() of a float with a whole value: 3.0, -1.0.
FloatToStr(x) == IntToStr(x) \o <<".", "0">>

RECURSIVE DigitsValue(_, _)
DigitsValue(s, acc) ==
    IF Len(s) = 0 THEN acc ELSE DigitsValue(Tail(s), 10 * acc + DigitValue(Head(s)))

AllDigits(s) == \A i \in DOMAIN s : IsDigit(s[i])

\* The text with a leading minus sign taken off.
Unsigned(s) == IF Len(s) > 0 /\ Head(s) = "-" THEN Tail(s) ELSE s

Signed(s, v) == IF Len(s) > 0 /\ Head(s) = "-" THEN -v ELSE v

\* int(text): surrounding whitespace, an optional sign, decimal digits;
\* {} when it raises ValueError.
ParseInt(text) ==
    LET s == strip(text)
        u == Unsigned(s)
    IN  IF Len(u) > 0 /\ AllDigits(u) THEN {Signed(s, DigitsValue(u, 0))} ELSE {}

\* float(text): as int(text) with an optional fraction; {} when it raises
\* ValueError. The prices of the model are whole, and so are the fractions
\* in its files: the value is that of the digits before the point.
ParseFloat(text) ==
    LET s == strip(text)
        u == Unsigned(s)
        dots == {i \in DOMAIN u : u[i] = "."}
        whole == IF dots = {} THEN u ELSE SubSeq(u, 1, (CHOOSE i \in dots : TRUE) - 1)
        frac == IF dots = {} THEN <<>> ELSE SubSeq(u, (CHOOSE i \in dots : TRUE) + 1, Len(u))
    IN  IF /\ Cardinality(dots) <= 1
           /\ AllDigits(whole) /\ AllDigits(frac)
           /\ Len(whole) + Len(frac) > 0
        THEN {Signed(s, DigitsValue(whole, 0))}
        ELSE {}

\* The row export_csv writes for an item.
ExportRow(r) ==
    ("ID" :> IntToStr(r.id)) @@ ("Name" :> r.name) @@ ("Category" :> r.category)
    @@ ("Quantity" :> IntToStr(r.quantity)) @@ ("Price" :> FloatToStr(r.price))
    @@ ("Total Value" :> FloatToStr(r.quantity * r.price))
    @@ ("Description" :> r.description)
    @@ ("Created" :> IntToStr(r.created_at)) @@ ("Updated" :> IntToStr(r.updated_at))

\* export_csv: the rows of get_all_items(), in its order.
export_csv(rows) ==
    LET list == get_all_items(rows, {}, {})
    IN  [i \in DOMAIN list |-> ExportRow(list[i])]

\* row.get(key, default)
Get(row, key, default) == IF key \in DOMAIN row THEN row[key] ELSE default

\* The body of import_csv's inner try for one row: the texts stripped, the
\* numbers parsed (a missing Quantity or Price column counts as 0), then
\* create_item.
import_row(rows, s, t, row) ==
    LET name == strip(Get(row, "Name", EmptyStr))
        quantity == IF "Quantity" \in DOMAIN row THEN ParseInt(row["Quantity"]) ELSE {0}
        price == IF "Price" \in DOMAIN row THEN ParseFloat(row["Price"]) ELSE {0}
        category == strip(Get(row, "Category", EmptyStr))
        description == strip(Get(row, "Description", EmptyStr))
    IN  IF quantity = {} \/ price = {} THEN Outcome("ValueError", {}, rows, s)
        ELSE create_item(rows, s, t,
                         Arg(name, CHOOSE q \in quantity : TRUE,
                             CHOOSE x \in price : TRUE, category, description))

ImportResult(rows, s, imported_count, error_count) ==
    [items |-> rows, seq |-> s, imported_count |-> imported_count,
     error_count |-> error_count]

\* The loop without the inner try: the first failing row ends the import.
RECURSIVE import_csv_abort(_, _, _, _, _, _)
import_csv_abort(rows, s, t, file, imported_count, error_count) ==
    IF Len(file) = 0 THEN ImportResult(rows, s, imported_count, error_count)
    ELSE LET o == import_row(rows, s, t, Head(file))
         IN  IF o.exc = ""
             THEN import_csv_abort(o.items, o.seq, t, Tail(file), imported_count + 1, error_count)
             ELSE ImportResult(rows, s, imported_count, error_count + 1)

\* import_csv's loop over the rows, all within second t: a row that raises
\* is counted in error_count and the loop goes on.
RECURSIVE import_csv(_, _, _, _, _, _)
import_csv(rows, s, t, file, imported_count, error_count) ==
    IF Len(file) = 0 THEN ImportResult(rows, s, imported_count, error_count)
    ELSE LET o == import_row(rows, s, t, Head(file))
         IN  IF o.exc = ""
             THEN import_csv(o.items, o.seq, t, Tail(file), imported_count + 1, error_count)
             ELSE import_csv(rows, s, t, Tail(file), imported_count, error_count + 1)

CsvRow(n, q, p, c, d) ==
    ("Name" :> n) @@ ("Quantity" :> q) @@ ("Price" :> p) @@ ("Category" :> c)
    @@ ("Description" :> d)

\* Rows of the files a user imports: two good ones (one padded with
\* blanks), one with a quantity that is no number, one with a blank name,
\* one with a negative price.
GoodRow == CsvRow(<<"a">>, <<"2">>, <<"3", ".", "0">>, <<"x">>, EmptyStr)
PaddedRow == CsvRow(<<" ", "b">>, <<"0">>, <<"0">>, <<"y", " ">>, <<"a">>)
NoNumberRow == CsvRow(<<"a">>, <<"x">>, <<"3", ".", "0">>, <<"x">>, EmptyStr)
BlankNameRow == CsvRow(Blank, <<"2">>, <<"3", ".", "0">>, <<"x">>, EmptyStr)
NegativeRow == CsvRow(<<"a">>, <<"2">>, <<"-", "1", ".", "0">>, <<"x">>, EmptyStr)

Files ==
    { <<>>, <<GoodRow>>, <<NoNumberRow>>,
      <<NoNumberRow, PaddedRow>>, <<GoodRow, BlankNameRow>>,
      <<GoodRow, NegativeRow, PaddedRow>>, <<BlankNameRow, NoNumberRow, GoodRow>> }

\* The desktop consumer's Import CSV, on the file the user picked.
ImportCsv(file) ==
    LET r == import_csv(items, seq, now, file, 0, 0)
    IN  /\ r.seq <= MaxId
        /\ items' = r.items
        /\ seq' = r.seq
        /\ issued' = issued \cup {x.id : x \in r.items \ items}
        /\ lastOp' = [op |-> "import_csv", id |-> {}, exc |-> "",
                       ret |-> {[imported_count |-> r.imported_count,
                                 error_count |-> r.error_count]},
                       status |-> 0]
        /\ UNCHANGED now

\* The desktop consumer's Export CSV: writes export_csv(items) to the file
\* and reports the number of items.
ExportCsv ==
    /\ lastOp' = [op |-> "export_csv", id |-> {}, exc |-> "",
                   ret |-> {Len(export_csv(items))}, status |-> 0]
    /\ UNCHANGED <<items, seq, now, issued>>

\* The web consumer's DELETE /api/items/<id>: 404 when get_item_by_id
\* finds nothing; otherwise db.delete_item, and 500 "Delete failed" when
\* the value it returns is falsy, 200 when not.
api_delete_item(item_id) ==
    LET existing == get_item_by_id(items, {item_id})
        o == delete_item(items, seq, item_id)
        ok == o.ret
        Response(status) ==
            [op |-> "api_delete_item", id |-> {item_id}, exc |-> "", ret |-> {},
             status |-> status]
    IN  IF existing = {}
        THEN /\ lastOp' = Response(404)
             /\ UNCHANGED <<items, seq, now, issued>>
        ELSE /\ items' = o.items
             /\ seq' = o.seq
             /\ lastOp' = Response(IF ok = {} THEN 500 ELSE 200)
             /\ UNCHANGED <<now, issued>>

\* A second passes.
Tick ==
    /\ now < MaxTime
    /\ now' = now + 1
    /\ UNCHANGED <<items, seq, issued, lastOp>>

Next ==
    \/ \E a \in Inputs : CreateItem(a)
    \/ \E item_id \in Ids, a \in Inputs : UpdateItem(item_id, a)
    \/ \E item_id \in Ids : DeleteItem(item_id)
    \/ \E a \in Inputs : add_item(a)
    \/ show_stats
    \/ \E file \in Files : ImportCsv(file)
    \/ ExportCsv
    \/ \E item_id \in Ids : api_delete_item(item_id)
    \/ Tick

Spec == Init /\ [][Next]_vars

\* The store alone, under callers of its three writing methods.
StoreNext ==
    \/ \E a \in Inputs : CreateItem(a)
    \/ \E item_id \in Ids, a \in Inputs : UpdateItem(item_id, a)
    \/ \E item_id \in Ids : DeleteItem(item_id)
    \/ Tick

StoreSpec == Init /\ [][StoreNext]_vars

\* The desktop consumer importing files into a store whose items come and go.
ImportNext ==
    \/ \E file \in Files : ImportCsv(file)
    \/ \E a \in Inputs : CreateItem(a)
    \/ \E item_id \in Ids : DeleteItem(item_id)
    \/ Tick

ImportSpec == Init /\ [][ImportNext]_vars

TypeOK ==
    /\ \A r \in items : r.id \in 1..MaxId /\ r.created_at \in 0..MaxTime
    /\ seq \in 0..MaxId
    /\ now \in 0..MaxTime

\* ---------------------------------------------------------------- claims
\* The action formulas below name the step they are about by the action
\* itself; lastOp' (the call's name and id argument, which the action
\* records) is tested first only to spare evaluating the action on other steps.
IdsOf(rows) == {r.id : r \in rows}

Range(f) == {f[i] : i \in DOMAIN f}

\* The texts are non-empty after trimming and the numbers are not negative.
ValidArgs(a) ==
    /\ Len(strip(a.name)) > 0
    /\ Len(strip(a.category)) > 0
    /\ a.quantity >= 0
    /\ a.price >= 0

\* An empty text or a negative number.
InvalidArgs(a) ==
    \/ Len(a.name) = 0
    \/ Len(a.category) = 0
    \/ a.quantity < 0
    \/ a.price < 0

\* The row has exactly the field values of a.
HasFields(r, a) ==
    /\ r.name = a.name
    /\ r.category = a.category
    /\ r.quantity = a.quantity
    /\ r.price = a.price
    /\ r.description = a.description

\* C1: every stored item has a name and a category that are non-empty after
\* trimming surrounding whitespace.
C1_NameAndCategoryNotBlank ==
    \A r \in items : Len(strip(r.name)) > 0 /\ Len(strip(r.category)) > 0

\* C2: update_item with valid values on an id no stored item has ends
\* differently from a successful update (which raises nothing and returns
\* None) and leaves the table unchanged.
C2_UpdateOfMissingIdSignalsNotFound ==
    [][\A item_id \in lastOp'.id, a \in Inputs :
          (lastOp'.op = "update_item" /\ UpdateItem(item_id, a) /\ ValidArgs(a)
              /\ item_id \notin IdsOf(items))
              => /\ lastOp'.exc # "" \/ lastOp'.ret # {}
                 /\ items' = items]_vars

\* C3: create_item with valid values returns a value that get_item_by_id
\* takes to the new item, which has exactly the given field values and
\* created_at equal to updated_at.
C3_CreateReturnsTheNewId ==
    [][\A a \in Inputs :
          (lastOp'.op = "create_item" /\ CreateItem(a) /\ ValidArgs(a))
              => \E r \in get_item_by_id(items', lastOp'.ret) :
                     /\ r.id \notin IdsOf(items)
                     /\ HasFields(r, a)
                     /\ r.created_at = r.updated_at]_vars

\* C4: get_summary_stats returns the number of items, the sum of the
\* quantities, the sum of quantity * price and the number of distinct
\* categories, each a number (0 on the empty table), never None.
C4_SummaryStatsAreTotals ==
    LET stats == get_summary_stats(items)
    IN  /\ stats.total_items = Cardinality(items)
        /\ stats.total_quantity = {SumQuantity(items)}
        /\ stats.total_value = {SumValue(items)}
        /\ stats.total_categories = Cardinality({r.category : r \in items})

\* C5: create_item with an empty name, an empty category, a negative
\* quantity or a negative price raises ValueError and leaves the number of
\* stored items unchanged; an update_item that raises ValueError leaves
\* every stored item unchanged.
C5_ValidationFailureChangesNothing ==
    [][/\ \A a \in Inputs :
              (lastOp'.op = "create_item" /\ InvalidArgs(a) /\ CreateItem(a))
                  => /\ lastOp'.exc = "ValueError"
                     /\ Cardinality(items') = Cardinality(items)
       /\ \A item_id \in lastOp'.id, a \in Inputs :
              (lastOp'.op = "update_item" /\ InvalidArgs(a) /\ UpdateItem(item_id, a))
                  => /\ lastOp'.exc = "ValueError"
                     /\ items' = items]_vars

\* C5 witness: a create_item has just been refused while items are stored.
C5_Witness ==
    /\ lastOp.op = "create_item"
    /\ lastOp.exc = "ValueError"
    /\ items # {}

\* C6: every stored item has quantity >= 0 and price >= 0.
C6_QuantityAndPriceNotNegative ==
    \A r \in items : r.quantity >= 0 /\ r.price >= 0

\* C6 witness: an update has just set an item's quantity and price to the
\* boundary value 0.
C6_Witness ==
    /\ lastOp.op = "update_item"
    /\ lastOp.exc = ""
    /\ \E r \in items : r.id \in lastOp.id /\ r.quantity = 0 /\ r.price = 0

\* C7 as stated: a successful update_item of a stored item makes updated_at
\* strictly later than it was.
C7_UpdateStrictlyAdvancesUpdatedAt ==
    [][\A item_id \in lastOp'.id, a \in Inputs :
          (lastOp'.op = "update_item" /\ lastOp'.exc = "" /\ UpdateItem(item_id, a))
              => \A r \in items : r.id = item_id
                     => \E q \in items' : q.id = item_id /\ q.updated_at > r.updated_at]_vars

\* C7 amended: a successful update_item of a stored item overwrites name,
\* category, quantity, price and description, sets updated_at to the
\* current second, which is not before the previous updated_at, and keeps
\* id and created_at; no other row changes.
C7_UpdateRefreshesUpdatedAt ==
    [][\A item_id \in lastOp'.id, a \in Inputs :
          (lastOp'.op = "update_item" /\ lastOp'.exc = "" /\ UpdateItem(item_id, a))
              => /\ IdsOf(items') = IdsOf(items)
                 /\ \A r \in items :
                        IF r.id = item_id
                        THEN \E q \in items' :
                                 /\ q.id = r.id
                                 /\ HasFields(q, a)
                                 /\ q.created_at = r.created_at
                                 /\ q.updated_at = now
                                 /\ q.updated_at >= r.updated_at
                        ELSE r \in items']_vars

\* C7 witness: an item updated in a later second than it was created in.
C7_Witness ==
    /\ lastOp.op = "update_item"
    /\ lastOp.exc = ""
    /\ \E r \in items : r.id \in lastOp.id /\ r.updated_at > r.created_at

\* A step in which a call of the method op returns: every action but Tick
\* records its call in lastOp and leaves the clock alone.
Returned(op) == lastOp'.op = op /\ now' = now

\* C8: an id that appears in the table is greater than every id assigned
\* before, deleted ones included; no two rows share an id; create_item
\* leaves the stored rows as they are, and update_item leaves every stored
\* id in place with its created_at.
C8_IdsGrowAndAreNeverReused ==
    [][/\ \A r \in items' \ items : r.id \notin IdsOf(items) => \A j \in issued : r.id > j
       /\ Cardinality(IdsOf(items')) = Cardinality(items')
       /\ Returned("create_item") => items \subseteq items'
       /\ Returned("update_item")
              => \A r \in items : \E q \in items' :
                     q.id = r.id /\ q.created_at = r.created_at]_vars

\* C8 witness: a create_item has just assigned an id after an item with a
\* smaller id was deleted.
C8_Witness ==
    /\ lastOp.op = "create_item"
    /\ lastOp.exc = ""
    /\ \E j \in issued : j \notin IdsOf(items)
    /\ \E r \in items : r.id = seq /\ r.created_at = now /\ \A j \in issued : j <= r.id

\* C9: delete_item raises nothing; afterwards get_item_by_id returns None
\* for the id and get_all_items lists no row with it; on an id that is not
\* stored it leaves the table unchanged.
C9_DeleteRemovesAndToleratesAbsence ==
    [][\A item_id \in lastOp'.id :
          (lastOp'.op = "delete_item" /\ DeleteItem(item_id))
              => /\ lastOp'.exc = ""
                 /\ get_item_by_id(items', {item_id}) = {}
                 /\ \A r \in Range(get_all_items(items', {}, {})) : r.id # item_id
                 /\ item_id \notin IdsOf(items) => items' = items]_vars

\* C9 witness: a delete_item has just returned for an id that was assigned
\* once and is not stored, while another item is stored.
C9_Witness ==
    /\ lastOp.op = "delete_item"
    /\ lastOp.exc = ""
    /\ lastOp.id \subseteq issued
    /\ lastOp.id \cap IdsOf(items) = {}
    /\ items # {}

\* C10: for every category C that get_categories returns,
\* get_all_items(category=C) lists exactly the stored items of category C,
\* each once, and these lists together hold the rows of get_all_items().
C10_CategoryListsPartitionTheItems ==
    LET cats == get_categories(items)
        ListOf(C) == get_all_items(items, {C}, {})
    IN  /\ \A i \in DOMAIN cats :
               /\ Range(ListOf(cats[i])) = {r \in items : r.category = cats[i]}
               /\ Len(ListOf(cats[i])) = Cardinality(Range(ListOf(cats[i])))
        /\ UNION {Range(ListOf(cats[i])) : i \in DOMAIN cats}
               = Range(get_all_items(items, {}, {}))

\* C10 witness: items of two different categories are stored.
C10_Witness ==
    /\ Len(get_categories(items)) >= 2
    /\ Cardinality(items) >= 2

\* Search terms a caller passes: plain letters in both cases, the two LIKE
\* wildcards, and the empty term.
SearchTerms == {<<"a">>, <<"A">>, <<"b">>, <<"%">>, <<"_">>, EmptyStr}

LowerStr(s) == [i \in DOMAIN s |-> Lower(s[i])]

\* term occurs in text as a substring, letters compared without regard to case.
Contains(text, term) ==
    \E i \in 0..(Len(text) - Len(term)) :
        LowerStr(SubSeq(text, i + 1, i + Len(term))) = LowerStr(term)

\* C11: get_all_items with a search term lists exactly the stored items
\* whose name or description contains the term as a substring, also for
\* the terms % and _; with a category given as well, exactly those of them
\* whose category is the given one.
C11_SearchIsSubstringMatch ==
    \A term \in SearchTerms :
        /\ Range(get_all_items(items, {}, {term}))
               = {r \in items : Contains(r.name, term) \/ Contains(r.description, term)}
        /\ \A r0 \in items :
               Range(get_all_items(items, {r0.category}, {term}))
                   = {r \in items : /\ r.category = r0.category
                                     /\ (Contains(r.name, term) \/ Contains(r.description, term))}

\* The five fields a CSV round trip is to keep.
FieldTuple(r) == <<r.name, r.category, r.quantity, r.price, r.description>>

\* How many of the rows carry the tuple.
CountOf(rows, tuple) == Cardinality({r \in rows : FieldTuple(r) = tuple})

\* C12: importing the rows export_csv writes for the stored items into an
\* empty store gives the same collection of (name, category, quantity,
\* price, description) tuples, each as often as it is stored.
C12_ExportImportRoundTrip ==
    LET back == import_csv({}, 0, now, export_csv(items), 0, 0).items
    IN  \A tuple \in {FieldTuple(r) : r \in items \cup back} :
            CountOf(back, tuple) = CountOf(items, tuple)

\* A file row whose numbers parse and whose values pass validation.
RowIsValid(row) ==
    /\ ParseInt(row["Quantity"]) # {}
    /\ ParseFloat(row["Price"]) # {}
    /\ Len(strip(row["Name"])) > 0
    /\ Len(strip(row["Category"])) > 0
    /\ \A q \in ParseInt(row["Quantity"]) : q >= 0
    /\ \A x \in ParseFloat(row["Price"]) : x >= 0

\* The tuple a valid file row is stored as.
RowTuple(row) ==
    <<strip(row["Name"]), strip(row["Category"]),
      CHOOSE q \in ParseInt(row["Quantity"]) : TRUE,
      CHOOSE x \in ParseFloat(row["Price"]) : TRUE,
      strip(row["Description"])>>

\* C13: an import counts every failing row as an error and goes on: the
\* two counts add up to the number of rows, imported_count is the number
\* of valid rows, the items stored before stay, the store grows by exactly
\* imported_count items, and every valid row, before or after a failing
\* one, is among the new items as often as it is in the file.
C13_ImportIsolatesRowFailures ==
    [][\A file \in Files :
          (lastOp'.op = "import_csv" /\ ImportCsv(file))
              => LET res == CHOOSE c \in lastOp'.ret : TRUE
                     good == {i \in DOMAIN file : RowIsValid(file[i])}
                     new == items' \ items
                 IN  /\ res.imported_count + res.error_count = Len(file)
                     /\ res.imported_count = Cardinality(good)
                     /\ items \subseteq items'
                     /\ Cardinality(new) = res.imported_count
                     /\ \A i \in good :
                            CountOf(new, RowTuple(file[i]))
                                = Cardinality({k \in good :
                                                   RowTuple(file[k]) = RowTuple(file[i])})]_vars

\* C13 witness: an import has just stored the two valid rows of a file and
\* counted the failing row between them.
C13_Witness ==
    /\ lastOp.op = "import_csv"
    /\ \E c \in lastOp.ret : c.imported_count = 2 /\ c.error_count = 1
    /\ Cardinality(items) = 2

\* C14: DELETE /api/items/<id> removes a stored item and answers 200; for
\* an id that is not stored it answers 404 and changes nothing.
C14_DeleteRouteAnswersByOutcome ==
    [][\A item_id \in lastOp'.id :
          (lastOp'.op = "api_delete_item" /\ api_delete_item(item_id))
              => IF item_id \in IdsOf(items)
                 THEN item_id \notin IdsOf(items') /\ lastOp'.status = 200
                 ELSE lastOp'.status = 404 /\ items' = items]_vars

====
